---- MODULE Spec2Model ----
(***************************************************************************)
(* Folder Tags plugin (obsidian-folder-tags): the tag resolver, the tag    *)
(* editor, the settings panel, the vault 'create' handler, the bulk folder *)
(* update and the content patcher of main.ts (FolderTag revision).         *)
(*                                                                         *)
(* A JavaScript string is a sequence of one-character strings, so that     *)
(* split, trim, startsWith, the regular expressions and the YAML codec are *)
(* computed the way the code computes them.                                *)
(***************************************************************************)
EXTENDS Integers, Sequences, FiniteSets, TLC

VARIABLES
    settings,   \* this.settings.folderTags: sequence of [path, tags]
    modal,      \* the open TagInputModal, or the closed modal
    vault,      \* the files that exist (app.vault.getFiles())
    content,    \* file -> its text
    cache,      \* file -> metadataCache.getFileCache(file)
    tasks,      \* async calls in flight, each suspended at an await
    log,        \* file reads and writes done so far
    edits,      \* number of tag editors opened so far
    hist        \* completed direct calls of the content patcher

vars == <<settings, modal, vault, content, cache, tasks, log, edits, hist>>

(***************************************************************************)
(* Bounds.                                                                 *)
(***************************************************************************)
\* tag editors opened in a run of the whole plugin
MaxEdits == 1

\* tag editors opened in a run of the editor alone
MaxEditorEdits == 2

\* files created in a run
MaxFiles == 2

\* asynchronous calls in flight
MaxTasks == 2

\* reads or writes of the vault that fail in a run
MaxFailures == 1

\* direct calls of the content patcher in a run
MaxCalls == 2

(***************************************************************************)
(* JavaScript strings.                                                     *)
(***************************************************************************)
LF == "\n"

WhiteSpace == {" ", LF, "\t"}

\* s.substring(from) with a 0-based index, as a 1-based suffix
SubstringFrom(s, from) == SubSeq(s, from + 1, Len(s))

\* s.startsWith(p)
startsWith(s, p) == Len(p) <= Len(s) /\ SubSeq(s, 1, Len(p)) = p

\* s.endsWith(p)
endsWith(s, p) == Len(p) <= Len(s) /\ SubSeq(s, Len(s) - Len(p) + 1, Len(s)) = p

\* whether sub occurs in s at the 1-based position i
occursAt(s, sub, i) ==
    i >= 1 /\ i + Len(sub) - 1 <= Len(s) /\ SubSeq(s, i, i + Len(sub) - 1) = sub

\* the least 1-based position >= from where sub occurs in s, 0 when none
indexOf(s, sub, from) ==
    LET hits == {i \in from..Len(s) : occursAt(s, sub, i)}
    IN  IF hits = {} THEN 0 ELSE CHOOSE i \in hits : \A j \in hits : i <= j

\* s.includes(sub)
includes(s, sub) == sub = <<>> \/ indexOf(s, sub, 1) # 0

RECURSIVE split(_, _)
\* s.split(c) for a one-character separator: "" splits to [""]
split(s, c) ==
    LET i == indexOf(s, <<c>>, 1)
    IN  IF i = 0 THEN <<s>>
        ELSE <<SubSeq(s, 1, i - 1)>> \o split(SubSeq(s, i + 1, Len(s)), c)

RECURSIVE join(_, _)
\* parts.join(sep)
join(parts, sep) ==
    IF parts = <<>> THEN <<>>
    ELSE IF Len(parts) = 1 THEN parts[1]
    ELSE parts[1] \o sep \o join(Tail(parts), sep)

RECURSIVE trimStart(_)
trimStart(s) ==
    IF s # <<>> /\ Head(s) \in WhiteSpace THEN trimStart(Tail(s)) ELSE s

RECURSIVE trimEnd(_)
\* s.trimEnd()
trimEnd(s) ==
    IF s # <<>> /\ s[Len(s)] \in WhiteSpace
    THEN trimEnd(SubSeq(s, 1, Len(s) - 1)) ELSE s

\* s.trim()
trim(s) == trimEnd(trimStart(s))

RECURSIVE dedupByKey(_, _)
\* Array.from(new Set(arr)): the first occurrence of every element is kept,
\* two elements being the same when their keys are (the value of a string,
\* the reference of an object)
dedupByKey(arr, keys) ==
    IF arr = <<>> THEN <<>>
    ELSE LET n == Len(arr)
             rest == dedupByKey(SubSeq(arr, 1, n - 1), SubSeq(keys, 1, n - 1))
         IN  IF \E j \in 1..(n - 1) : keys[j] = keys[n]
             THEN rest ELSE Append(rest, arr[n])

(***************************************************************************)
(* The vault of the model: three folders, "ab" being a sibling of "a"      *)
(* whose name starts with "a", and one file in each.                       *)
(***************************************************************************)
FolderA == <<"a">>

FolderAB == <<"a", "/", "b">>

FolderABC == <<"a", "/", "b", "/", "c">>

FolderSib == <<"a", "b">>

Folders == {FolderA, FolderAB, FolderABC, FolderSib}

\* TFile: path and parent.path
FileA == [path |-> <<"a", "/", "f">>, parent |-> FolderA]

FileAB == [path |-> <<"a", "/", "b", "/", "f">>, parent |-> FolderAB]

FileSib == [path |-> <<"a", "b", "/", "f">>, parent |-> FolderSib]

\* the order in which vault.getFiles() lists the files
AllFiles == <<FileA, FileAB, FileSib>>

Files == {AllFiles[i] : i \in 1..Len(AllFiles)}

TagX == <<"x">>

TagY == <<"y">>

TagZ == <<"z">>

\* the tag names typed into the editor
TagNames == {TagX, TagY}

\* interface FolderTag
FolderTag(t, inh) == [tag |-> t, inherited |-> inh]

(***************************************************************************)
(* Tag resolver.                                                           *)
(***************************************************************************)
\* folderTags.findIndex((ft) => ft.path === path), 1-based, 0 when absent
findIndex(folderTags, path) ==
    LET hits == {i \in 1..Len(folderTags) : folderTags[i].path = path}
    IN  IF hits = {} THEN 0 ELSE CHOOSE i \in hits : \A j \in hits : i <= j

\* (t) => ({ tag: t.tag, inherited: true })
markInherited(t) == FolderTag(t.tag, TRUE)

RECURSIVE inheritedLoop(_, _, _, _)
\* the for loop of getInheritedTags over the remaining path parts
inheritedLoop(folderTags, parts, currentPath, inheritedTags) ==
    IF parts = <<>> THEN inheritedTags
    ELSE LET sep == IF currentPath # <<>> THEN currentPath \o <<"/">>
                    ELSE currentPath
             cur == sep \o Head(parts)
             idx == findIndex(folderTags, cur)
             acc == IF idx # 0
                    THEN [i \in 1..Len(inheritedTags) |->
                                markInherited(inheritedTags[i])]
                         \o [i \in 1..Len(folderTags[idx].tags) |->
                                markInherited(folderTags[idx].tags[i])]
                    ELSE inheritedTags
         IN  inheritedLoop(folderTags, Tail(parts), cur, acc)

\* getInheritedTags without pathParts.pop(): the folder counts as its own parent
getInheritedTagsNoPop(folderTags, path) ==
    inheritedLoop(folderTags, split(path, "/"), <<>>, <<>>)

getInheritedTags(folderTags, path) ==
    LET pathParts == split(path, "/")
        popped == SubSeq(pathParts, 1, Len(pathParts) - 1)
    IN  inheritedLoop(folderTags, popped, <<>>, <<>>)

\* the direct tags of a folder: the stored array, [] when it has no record
directTagsOf(folderTags, path) ==
    LET idx == findIndex(folderTags, path)
    IN  IF idx = 0 THEN <<>> ELSE folderTags[idx].tags

\* Array.from(new Set([...directTags, ...parentTags])): a Set of objects
\* holds one entry per object reference. directTags are the stored objects,
\* parentTags the objects getInheritedTags has just created.
getFolderTags(folderTags, folderPath) ==
    LET directTags == directTagsOf(folderTags, folderPath)
        parentTags == getInheritedTags(folderTags, folderPath)
        refs == [i \in 1..Len(directTags) |-> <<"stored", i>>]
                    \o [i \in 1..Len(parentTags) |-> <<"created", i>>]
    IN  dedupByKey(directTags \o parentTags, refs)

(***************************************************************************)
(* Tag assignment mutation.                                                *)
(***************************************************************************)
\* saveFolderTags that pushes a record whether or not the path has one
saveFolderTagsAlwaysPush(folderTags, folderPath, tags) ==
    Append(folderTags, [path |-> folderPath, tags |-> tags])

saveFolderTags(folderTags, folderPath, tags) ==
    LET existingIndex == findIndex(folderTags, folderPath)
    IN  IF existingIndex # 0
        THEN [folderTags EXCEPT ![existingIndex].tags = tags]
        ELSE Append(folderTags, [path |-> folderPath, tags |-> tags])

(***************************************************************************)
(* Minimal frontmatter codec. A parsed object is the ordered list of its   *)
(* entries; an array value holds items, an item being a string or a        *)
(* FolderTag object.                                                       *)
(***************************************************************************)
KeyTags == <<"t", "a", "g", "s">>

\* String(object): what Array.prototype.join writes for a plain object
ObjectObject ==
    <<"[", "o", "b", "j", "e", "c", "t", " ", "O", "b", "j", "e", "c", "t", "]">>

StringItem(s) == [isObject |-> FALSE, text |-> s]

ObjectItem(t) == [isObject |-> TRUE, text |-> t.tag]

\* the string join() writes for an array element
itemToString(item) == IF item.isObject THEN ObjectObject ELSE item.text

ArrayValue(items) == [isArray |-> TRUE, items |-> items, text |-> <<>>]

ScalarValue(s) == [isArray |-> FALSE, items |-> <<>>, text |-> s]

\* the index of key among the entries of obj, 0 when obj has no such key
keyIndex(obj, key) ==
    LET hits == {i \in 1..Len(obj) : obj[i].key = key}
    IN  IF hits = {} THEN 0 ELSE CHOOSE i \in hits : TRUE

\* obj[key] = value: an existing key keeps its place, a new one goes last
setKey(obj, key, value) ==
    LET i == keyIndex(obj, key)
    IN  IF i # 0 THEN [obj EXCEPT ![i].value = value]
        ELSE Append(obj, [key |-> key, value |-> value])

\* delete obj[key]
deleteKey(obj, key) == SelectSeq(obj, LAMBDA e : e.key # key)

\* .map((s) => s.trim())
trimAll(parts) == [i \in 1..Len(parts) |-> trim(parts[i])]

\* line.split(":").map((s) => s.trim())
splitTrim(s, c) == trimAll(split(s, c))

\* the tokens of a bracketed list, as the strings of an array value
stringItems(tokens) == [i \in 1..Len(tokens) |-> StringItem(tokens[i])]

\* result[key] = the list of a bracketed value, or the value itself
parseValue(result, key, value) ==
    IF startsWith(value, <<"[">>) /\ endsWith(value, <<"]">>)
    THEN setKey(result, key,
             ArrayValue(stringItems(
                 splitTrim(SubSeq(value, 2, Len(value) - 1), ","))))
    ELSE setKey(result, key, ScalarValue(value))

\* const [key, ...values] = parts; if (key && values.length)
parseParts(result, parts) ==
    IF Head(parts) # <<>> /\ Len(parts) > 1
    THEN parseValue(result, Head(parts), trim(join(Tail(parts), <<":">>)))
    ELSE result

\* the body of the for loop of parseYaml for one line
parseLine(result, line) == parseParts(result, splitTrim(line, ":"))

RECURSIVE parseLines(_, _)
parseLines(result, lines) ==
    IF lines = <<>> THEN result
    ELSE parseLines(parseLine(result, Head(lines)), Tail(lines))

parseYaml(yaml) == parseLines(<<>>, split(yaml, LF))

\* one entry of stringifyYaml
stringifyEntry(e) ==
    IF e.value.isArray
    THEN e.key \o <<":", " ", "[">>
             \o join([i \in 1..Len(e.value.items) |->
                          itemToString(e.value.items[i])], <<",", " ">>)
             \o <<"]">>
    ELSE e.key \o <<":", " ">> \o e.value.text

stringifyYaml(obj) ==
    join([i \in 1..Len(obj) |-> stringifyEntry(obj[i])], <<LF>>)

(***************************************************************************)
(* Content patcher.                                                        *)
(***************************************************************************)
Dashes == <<"-", "-", "-">>

\* content.match(/^---\n([\s\S]*?)\n---/): the lazy group ends at the first
\* "\n---" after the opening line. from/to delimit the whole match.
frontmatterMatch(text) ==
    LET close == IF startsWith(text, Dashes \o <<LF>>)
                 THEN indexOf(text, <<LF>> \o Dashes, 5) ELSE 0
    IN  IF close = 0
        THEN [found |-> FALSE, group |-> <<>>, to |-> 0]
        ELSE [found |-> TRUE, group |-> SubSeq(text, 5, close - 1),
              to |-> close + 3]

\* content.replace(frontmatterRegex, `---\n${newFrontmatter}---`)
replaceFrontmatter(text, newFrontmatter) ==
    LET m == frontmatterMatch(text)
    IN  IF ~m.found THEN text
        ELSE Dashes \o <<LF>> \o newFrontmatter \o Dashes
                 \o SubSeq(text, m.to + 1, Len(text))

\* getFileCache(file) === null
NoCache == [exists |-> FALSE, frontmatter |-> FALSE, tags |-> <<>>]

\* metadata?.tags, each tag.tag.substring(1)
existingTagNames(metadata) ==
    IF metadata.exists
    THEN {SubstringFrom(metadata.tags[i], 1) : i \in 1..Len(metadata.tags)}
    ELSE {}

\* yaml.tags || [], made an array
frontmatterTagItems(yaml) ==
    LET i == keyIndex(yaml, KeyTags)
    IN  IF i = 0 THEN <<>>
        ELSE IF yaml[i].value.isArray THEN yaml[i].value.items
        ELSE IF yaml[i].value.text = <<>> THEN <<>>
        ELSE <<StringItem(yaml[i].value.text)>>

\* Array.from(new Set(items)): strings are the same by value, objects by
\* reference, and every object of items is a different one
dedupItems(items) ==
    dedupByKey(items,
        [i \in 1..Len(items) |->
            IF items[i].isObject THEN [ref |-> i, text |-> <<>>]
            ELSE [ref |-> 0, text |-> items[i].text]])

\* `#${tag.tag}` of every tag
hashTags(tags) == [i \in 1..Len(tags) |-> <<"#">> \o tags[i].tag]

\* `${content}\n\n${tagString}`: the text is not trimmed
inlineAppendUntrimmed(text, tagsToAdd) ==
    text \o <<LF, LF>> \o join(hashTags(tagsToAdd), <<" ">>)

\* the else branch: `${content.trimEnd()}\n\n${tagString}`
inlineAppend(text, tagsToAdd) ==
    trimEnd(text) \o <<LF, LF>> \o join(hashTags(tagsToAdd), <<" ">>)

\* tagsToAdd.filter((tag) => !existingTags.has(tag.tag))
filterNewTags(metadata, newTags) ==
    SelectSeq(newTags, LAMBDA t : t.tag \notin existingTagNames(metadata))

\* [...existingTags, ...tagsToAdd] for array elements
objectItems(tags) == [i \in 1..Len(tags) |-> ObjectItem(tags[i])]

\* yaml.tags = allTags on the parsed block
addTagsToYaml(yaml, tagsToAdd) ==
    setKey(yaml, KeyTags,
        ArrayValue(dedupItems(frontmatterTagItems(yaml) \o objectItems(tagsToAdd))))

\* the frontmatter branch: nothing is written when the regex does not match
addToFrontmatter(text, m, tagsToAdd) ==
    IF m.found
    THEN [wrote |-> TRUE,
          text |-> replaceFrontmatter(text,
                       stringifyYaml(addTagsToYaml(parseYaml(m.group), tagsToAdd)))]
    ELSE [wrote |-> FALSE, text |-> text]

\* addTagsToFileContent from the filtered tags on
addFilteredTags(text, metadata, tagsToAdd) ==
    IF Len(tagsToAdd) = 0
    THEN [wrote |-> FALSE, text |-> text]
    ELSE IF metadata.exists /\ metadata.frontmatter
    THEN addToFrontmatter(text, frontmatterMatch(text), tagsToAdd)
    ELSE [wrote |-> TRUE, text |-> inlineAppend(text, tagsToAdd)]

\* addTagsToFileContent after the read: what it writes, if it writes.
\* newTags is a Set of distinct FolderTag objects in insertion order.
addTagsToFileContent(text, metadata, newTags) ==
    IF Len(newTags) = 0
    THEN [wrote |-> FALSE, text |-> text]
    ELSE addFilteredTags(text, metadata, filterNewTags(metadata, newTags))

WordChars ==
    {"a", "b", "c", "d", "e", "f", "g", "h", "i", "j", "k", "l", "m", "n", "o",
     "p", "q", "r", "s", "t", "u", "v", "w", "x", "y", "z", "A", "B", "C", "D",
     "E", "F", "G", "H", "I", "J", "K", "L", "M", "N", "O", "P", "Q", "R", "S",
     "T", "U", "V", "W", "X", "Y", "Z", "0", "1", "2", "3", "4", "5", "6", "7",
     "8", "9", "_"}

\* \b between the positions e and e + 1 of s
wordBoundary(s, e) ==
    (e >= 1 /\ e <= Len(s) /\ s[e] \in WordChars)
        # (e + 1 <= Len(s) /\ s[e + 1] \in WordChars)

\* the end of the white space run that starts at i: the first position >= i
\* that holds no white space
skipSpace(s, i) ==
    LET stops == {p \in i..(Len(s) + 1) : p = Len(s) + 1 \/ s[p] \notin WhiteSpace}
    IN  CHOOSE p \in stops : \A q \in stops : p <= q

\* /\s*(#t1|#t2|...)\b/ tried at position i: the last position of the match,
\* 0 when it does not match there. The first alternative that matches wins.
tagRegexAt(s, i, patterns) ==
    LET p == skipSpace(s, i)
        ok == {k \in 1..Len(patterns) :
                  /\ occursAt(s, patterns[k], p)
                  /\ wordBoundary(s, p + Len(patterns[k]) - 1)}
    IN  IF ok = {} THEN 0
        ELSE LET k == CHOOSE k \in ok : \A j \in ok : k <= j
             IN  p + Len(patterns[k]) - 1

RECURSIVE replaceTags(_, _, _)
\* newContent.replace(tagRegex, " ") with the g flag, from position i on
replaceTags(s, i, patterns) ==
    IF i > Len(s) THEN <<>>
    ELSE LET e == tagRegexAt(s, i, patterns)
         IN  IF e # 0 THEN <<" ">> \o replaceTags(s, e + 1, patterns)
             ELSE <<s[i]>> \o replaceTags(s, i + 1, patterns)

\* existingTags.filter((tag) => !tagsForRemoval.has(tag))
filterRemoved(existingTags, tagsForRemoval) ==
    SelectSeq(existingTags,
        LAMBDA item : ~\E k \in 1..Len(tagsForRemoval) :
                           tagsForRemoval[k].tag = item.text)

\* yaml.tags = updatedTags, or delete yaml.tags when none is left
setOrDeleteTags(yaml, updatedTags) ==
    IF Len(updatedTags) = 0 THEN deleteKey(yaml, KeyTags)
    ELSE setKey(yaml, KeyTags, ArrayValue(updatedTags))

\* if (yaml.tags) at index i of the parsed block
tagsTruthy(yaml, i) ==
    i # 0 /\ (yaml[i].value.isArray \/ yaml[i].value.text # <<>>)

\* the block rewritten without the removed tags, when it has a tags value
removeFromYaml(text, yaml, tagsForRemoval) ==
    IF tagsTruthy(yaml, keyIndex(yaml, KeyTags))
    THEN replaceFrontmatter(text,
             stringifyYaml(setOrDeleteTags(yaml,
                 filterRemoved(frontmatterTagItems(yaml), tagsForRemoval))))
    ELSE text

\* if (match): the block is parsed
removeFromMatch(text, m, tagsForRemoval) ==
    IF m.found THEN removeFromYaml(text, parseYaml(m.group), tagsForRemoval)
    ELSE text

\* the frontmatter part of removeTagsFromFileContent
removeFromFrontmatter(text, metadata, tagsForRemoval) ==
    IF metadata.exists /\ metadata.frontmatter
    THEN removeFromMatch(text, frontmatterMatch(text), tagsForRemoval)
    ELSE text

\* if (newContent !== content) await this.app.vault.modify(file, newContent)
modifyIfChanged(text, newContent) ==
    [wrote |-> newContent # text, text |-> newContent]

\* removeTagsFromFileContent after the read: what it writes, if it writes
removeTagsFromFileContent(text, metadata, tagsForRemoval) ==
    IF Len(tagsForRemoval) = 0 THEN [wrote |-> FALSE, text |-> text]
    ELSE modifyIfChanged(text,
             replaceTags(removeFromFrontmatter(text, metadata, tagsForRemoval),
                 1, hashTags(tagsForRemoval)))

(***************************************************************************)
(* The host's metadata cache (spec section 6): what getFileCache reports   *)
(* once the host has indexed a text. The plugin only reads it.             *)
(***************************************************************************)
TagChars == WordChars \cup {"-", "/"}

\* the last position of the leading frontmatter block whose closing "---"
\* stands on a line of its own, 0 when the text has none
hostFrontmatterEnd(text) ==
    LET closes == {j \in 4..Len(text) :
                      /\ occursAt(text, <<LF>> \o Dashes, j)
                      /\ (j + 4 > Len(text) \/ text[j + 4] = LF)}
    IN  IF startsWith(text, Dashes \o <<LF>>) /\ closes # {}
        THEN (CHOOSE j \in closes : \A k \in closes : j <= k) + 3
        ELSE 0

\* the end of the tag name that starts at position p
tagNameEnd(text, p) ==
    LET stops == {q \in p..(Len(text) + 1) :
                     q = Len(text) + 1 \/ text[q] \notin TagChars}
    IN  (CHOOSE q \in stops : \A r \in stops : q <= r) - 1

RECURSIVE hostTags(_, _)
\* the inline tags ("#name") of text from position i on
hostTags(text, i) ==
    IF i > Len(text) THEN <<>>
    ELSE IF /\ text[i] = "#"
            /\ (i = 1 \/ text[i - 1] \in WhiteSpace)
            /\ tagNameEnd(text, i + 1) >= i + 1
    THEN <<SubSeq(text, i, tagNameEnd(text, i + 1))>>
             \o hostTags(text, tagNameEnd(text, i + 1) + 1)
    ELSE hostTags(text, i + 1)

hostFileCache(text) ==
    LET fmEnd == hostFrontmatterEnd(text)
    IN  [exists |-> TRUE, frontmatter |-> fmEnd # 0,
         tags |-> hostTags(text, fmEnd + 1)]

(***************************************************************************)
(* State.                                                                  *)
(***************************************************************************)
ClosedModal ==
    [open |-> FALSE, origin |-> "none", path |-> <<>>, tags |-> <<>>,
     aliased |-> FALSE, currentTags |-> <<>>]

\* the texts a new file is created with
NewFileTexts ==
    { <<"t">> }

\* loadSettings: the folder records a former session has saved
LoadedSettings ==
    { <<>>,
      <<[path |-> FolderA, tags |-> <<FolderTag(TagZ, FALSE)>>]>>,
      <<[path |-> FolderA, tags |-> <<FolderTag(TagZ, FALSE)>>],
        [path |-> FolderAB, tags |-> <<FolderTag(TagY, FALSE)>>]>> }

Init ==
    /\ settings \in LoadedSettings
    /\ modal = ClosedModal
    /\ vault = {}
    /\ content = [f \in Files |-> <<>>]
    /\ cache = [f \in Files |-> NoCache]
    /\ tasks = <<>>
    /\ log = {}
    /\ edits = 0
    /\ hist = <<>>

hasTag(tags, t) == \E i \in 1..Len(tags) : tags[i].tag = t

notInherited(tags) == SelectSeq(tags, LAMBDA t : ~t.inherited)

removeAt(seq, i) == SubSeq(seq, 1, i - 1) \o SubSeq(seq, i + 1, Len(seq))

(***************************************************************************)
(* Tag editor (TagInputModal) and its two openers.                         *)
(***************************************************************************)
\* addTagsToFolder up to modal.open(): the editor gets a copy of
\* [...inheritedTags, ...currentTags]; the callback keeps currentTags
addTagsToFolder(folder, limit) ==
    /\ ~modal.open
    /\ edits < limit
    /\ LET currentTags == directTagsOf(settings, folder)
           inheritedTags == getInheritedTags(settings, folder)
       IN  modal' = [open |-> TRUE, origin |-> "folder", path |-> folder,
                     tags |-> inheritedTags \o currentTags,
                     aliased |-> FALSE, currentTags |-> currentTags]
    /\ edits' = edits + 1
    /\ UNCHANGED <<settings, vault, content, cache, tasks, log, hist>>

\* the Edit button of the settings panel: the editor gets folderTag.tags,
\* the stored array itself
SettingsEdit(i, limit) ==
    /\ ~modal.open
    /\ edits < limit
    /\ i \in 1..Len(settings)
    /\ modal' = [open |-> TRUE, origin |-> "settings", path |-> settings[i].path,
                 tags |-> settings[i].tags, aliased |-> TRUE,
                 currentTags |-> <<>>]
    /\ edits' = edits + 1
    /\ UNCHANGED <<settings, vault, content, cache, tasks, log, hist>>

\* the Remove button of the settings panel
SettingsRemove(i) ==
    /\ ~modal.open
    /\ i \in 1..Len(settings)
    /\ settings' = SelectSeq(settings, LAMBDA ft : ft.path # settings[i].path)
    /\ UNCHANGED <<modal, vault, content, cache, tasks, log, edits, hist>>

\* this.tags.push({ tag, inherited: false }) unless the name is there
pushTag(tags, t) ==
    IF t # <<>> /\ ~hasTag(tags, t) THEN Append(tags, FolderTag(t, FALSE))
    ELSE tags

\* the settings after this.tags became tags: a push on the stored array
\* shows in the record the editor was opened on
settingsAfterPush(tags) ==
    LET i == findIndex(settings, modal.path)
    IN  IF modal.aliased /\ i # 0 THEN [settings EXCEPT ![i].tags = tags]
        ELSE settings

\* keydown " " with the trimmed input t
ModalKeySpace(t) ==
    /\ modal.open
    /\ modal' = [modal EXCEPT !.tags = pushTag(modal.tags, t)]
    /\ settings' = settingsAfterPush(pushTag(modal.tags, t))
    /\ UNCHANGED <<vault, content, cache, tasks, log, edits, hist>>

\* the delete button of the pill of a tag that is not inherited
ModalDeletePill(t) ==
    /\ modal.open
    /\ \E i \in 1..Len(modal.tags) :
           modal.tags[i].tag = t /\ ~modal.tags[i].inherited
    /\ modal' = [modal EXCEPT !.tags = SelectSeq(modal.tags, LAMBDA x : x.tag # t),
                              !.aliased = FALSE]
    /\ UNCHANGED <<settings, vault, content, cache, tasks, log, edits, hist>>

\* onSubmit(this.tags) without the filter
submittedTagsUnfiltered(tags) == tags

\* what the editor hands to onSubmit
submittedTags(tags) == notInherited(tags)

\* the removedTags of the callback of addTagsToFolder
removedTagsOf(currentTags, newTags) ==
    SelectSeq(currentTags,
        LAMBDA tag : ~\E i \in 1..Len(newTags) :
                         /\ newTags[i].tag = tag.tag
                         /\ newTags[i].inherited = tag.inherited)

BulkTask(folder, removedTags, addedTags) ==
    [origin |-> "bulk", folder |-> folder, pc |-> "list", queue |-> <<>>,
     buf |-> <<>>, removed |-> removedTags, added |-> addedTags]

\* the Save button, or Ctrl/Cmd+Enter, with the trimmed input. The callback
\* runs up to its first await: saveFolderTags has changed the settings.
ModalSave(input) ==
    /\ modal.open
    /\ modal.origin = "folder" => Len(tasks) < MaxTasks
    /\ LET pushed == pushTag(modal.tags, input)
           newTags == submittedTags(pushed)
       IN  /\ settings' = saveFolderTags(settingsAfterPush(pushed),
                                         modal.path, newTags)
           /\ tasks' = IF modal.origin = "folder"
                       THEN Append(tasks,
                                BulkTask(modal.path,
                                    removedTagsOf(modal.currentTags, newTags),
                                    newTags))
                       ELSE tasks
    /\ modal' = ClosedModal
    /\ UNCHANGED <<vault, content, cache, log, edits, hist>>

\* the editor is closed without saving
ModalClose ==
    /\ modal.open
    /\ modal' = ClosedModal
    /\ UNCHANGED <<settings, vault, content, cache, tasks, log, edits, hist>>

(***************************************************************************)
(* Asynchronous file operations. A task is a call suspended at an await:   *)
(* pc "list" before getFiles(), "read" while vault.read is pending and     *)
(* "write" once the text is read. queue holds the calls of the loop that   *)
(* are still to run, the first being the one in progress.                  *)
(***************************************************************************)
FileOp(op, file, tags) == [op |-> op, file |-> file, tags |-> tags]

\* a 'create' handler that resolves the parent's direct tags only
onCreateTasksDirectOnly(folderTags, file) ==
    LET directTags == directTagsOf(folderTags, file.parent)
    IN  IF Len(directTags) > 0
        THEN <<[origin |-> "create", folder |-> file.parent, pc |-> "read",
                queue |-> <<FileOp("add", file, directTags)>>,
                buf |-> <<>>, removed |-> <<>>, added |-> <<>>]>>
        ELSE <<>>

\* the vault 'create' handler: addTagsToFileContent is called, not awaited
onCreateTasks(folderTags, file) ==
    LET inheritedTags == getFolderTags(folderTags, file.parent)
    IN  IF Len(inheritedTags) > 0
        THEN <<[origin |-> "create", folder |-> file.parent, pc |-> "read",
                queue |-> <<FileOp("add", file, inheritedTags)>>,
                buf |-> <<>>, removed |-> <<>>, added |-> <<>>]>>
        ELSE <<>>

\* a file appears in the vault and the host fires 'create'
CreateFile(file, text) ==
    /\ file \in Files \ vault
    /\ Cardinality(vault) < MaxFiles
    /\ Len(tasks) < MaxTasks
    /\ vault' = vault \cup {file}
    /\ content' = [content EXCEPT ![file] = text]
    /\ cache' = [cache EXCEPT ![file] = NoCache]
    /\ tasks' = tasks \o onCreateTasks(settings, file)
    /\ UNCHANGED <<settings, modal, log, edits, hist>>

\* getFiles().filter((file) => file.path.startsWith(folder.path))
filesOfFolder(files, folder) ==
    SelectSeq(AllFiles, LAMBDA f : f \in files /\ startsWith(f.path, folder))

RECURSIVE loopCalls(_, _, _)
\* the calls the for loop of the callback makes, in order
loopCalls(files, removedTags, addedTags) ==
    IF files = <<>> THEN <<>>
    ELSE (IF Len(removedTags) > 0
          THEN <<FileOp("remove", Head(files), removedTags)>> ELSE <<>>)
         \o (IF Len(addedTags) > 0
             THEN <<FileOp("add", Head(files), addedTags)>> ELSE <<>>)
         \o loopCalls(Tail(files), removedTags, addedTags)

\* the callback of addTagsToFolder resumes after saveFolderTags
BulkList(i) ==
    /\ i \in 1..Len(tasks)
    /\ tasks[i].pc = "list"
    /\ LET t == tasks[i]
           calls == loopCalls(filesOfFolder(vault, t.folder), t.removed, t.added)
       IN  tasks' = IF calls = <<>> THEN removeAt(tasks, i)
                    ELSE [tasks EXCEPT ![i].pc = "read", ![i].queue = calls]
    /\ UNCHANGED <<settings, modal, vault, content, cache, log, edits, hist>>

LogEntry(t, access) ==
    [origin |-> t.origin, folder |-> t.folder, file |-> Head(t.queue).file,
     op |-> Head(t.queue).op, access |-> access]

\* await this.app.vault.read(file) completes
TaskRead(i) ==
    /\ i \in 1..Len(tasks)
    /\ tasks[i].pc = "read"
    /\ tasks' = [tasks EXCEPT ![i].pc = "write",
                              ![i].buf = content[Head(tasks[i].queue).file]]
    /\ log' = log \cup {LogEntry(tasks[i], "read")}
    /\ UNCHANGED <<settings, modal, vault, content, cache, edits, hist>>

\* what the call in progress writes from the text it has read
patchResult(call, text, metadata) ==
    IF call.op = "add" THEN addTagsToFileContent(text, metadata, call.tags)
    ELSE removeTagsFromFileContent(text, metadata, call.tags)

\* the rest of the call after the read: getFileCache, the new text and
\* vault.modify; then the loop goes on to its next call
TaskWrite(i) ==
    /\ i \in 1..Len(tasks)
    /\ tasks[i].pc = "write"
    /\ \E res \in {patchResult(Head(tasks[i].queue), tasks[i].buf,
                       cache[Head(tasks[i].queue).file])} :
           /\ content' = IF res.wrote
                         THEN [content EXCEPT ![Head(tasks[i].queue).file] = res.text]
                         ELSE content
           /\ log' = IF res.wrote THEN log \cup {LogEntry(tasks[i], "write")}
                     ELSE log
    /\ tasks' = IF Len(tasks[i].queue) = 1 THEN removeAt(tasks, i)
                ELSE [tasks EXCEPT ![i].pc = "read", ![i].buf = <<>>,
                                   ![i].queue = Tail(tasks[i].queue)]
    /\ UNCHANGED <<settings, modal, vault, cache, edits, hist>>

\* the calls a run has seen fail
Failures == {e \in log : e.access = "failed"}

\* vault.read or vault.modify rejects: the await throws, nothing catches it,
\* and the call, with the loop it belongs to, ends there
TaskFail(i) ==
    /\ i \in 1..Len(tasks)
    /\ Cardinality(Failures) < MaxFailures
    /\ \/ tasks[i].pc = "read"
       \/ /\ tasks[i].pc = "write"
          /\ patchResult(Head(tasks[i].queue), tasks[i].buf,
                 cache[Head(tasks[i].queue).file]).wrote
    /\ tasks' = removeAt(tasks, i)
    /\ log' = log \cup {LogEntry(tasks[i], "failed")}
    /\ UNCHANGED <<settings, modal, vault, content, cache, edits, hist>>

\* the host indexes the current text of a file
CacheUpdate(file) ==
    /\ file \in vault
    /\ cache[file] # hostFileCache(content[file])
    /\ cache' = [cache EXCEPT ![file] = hostFileCache(content[file])]
    /\ UNCHANGED <<settings, modal, vault, content, tasks, log, edits, hist>>

Next ==
    \/ \E folder \in Folders : addTagsToFolder(folder, MaxEdits)
    \/ \E i \in 1..Len(settings) : SettingsEdit(i, MaxEdits)
    \/ \E i \in 1..Len(settings) : SettingsRemove(i)
    \/ \E t \in TagNames : ModalKeySpace(t)
    \/ \E t \in TagNames : ModalDeletePill(t)
    \/ \E input \in TagNames \cup {<<>>} : ModalSave(input)
    \/ ModalClose
    \/ \E file \in Files, text \in NewFileTexts : CreateFile(file, text)
    \/ \E i \in 1..Len(tasks) : BulkList(i)
    \/ \E i \in 1..Len(tasks) : TaskRead(i)
    \/ \E i \in 1..Len(tasks) : TaskWrite(i)
    \/ \E i \in 1..Len(tasks) : TaskFail(i)
    \/ \E file \in Files : CacheUpdate(file)

\* the whole plugin: settings loaded, then editor, settings panel, file
\* creation and the asynchronous file operations
Spec == Init /\ [][Next]_vars

EditorNext ==
    \/ \E folder \in Folders : addTagsToFolder(folder, MaxEditorEdits)
    \/ \E i \in 1..Len(settings) : SettingsEdit(i, MaxEditorEdits)
    \/ \E i \in 1..Len(settings) : SettingsRemove(i)
    \/ \E t \in TagNames : ModalKeySpace(t)
    \/ \E t \in TagNames : ModalDeletePill(t)
    \/ \E input \in TagNames \cup {<<>>} : ModalSave(input)
    \/ ModalClose
    \/ \E i \in 1..Len(tasks) : BulkList(i)

\* the tag editor and the settings panel on an empty vault
SpecEditor == Init /\ [][EditorNext]_vars

CreateNext ==
    \/ \E file \in Files, text \in NewFileTexts : CreateFile(file, text)
    \/ \E i \in 1..Len(tasks) : TaskRead(i)
    \/ \E i \in 1..Len(tasks) : TaskWrite(i)
    \/ \E file \in Files : CacheUpdate(file)
    \/ \E i \in 1..Len(settings) : SettingsRemove(i)

\* files are created in a vault whose folder tags a former session saved
SpecCreate == Init /\ [][CreateNext]_vars

(***************************************************************************)
(* The content patcher called directly, as the tests call it: one file,    *)
(* each call awaited before the next one. hist records the calls.          *)
(***************************************************************************)
TagA == <<"a">>

TagB == <<"b">>

TagC == <<"c">>

\* the texts of the file the patcher is called on
PatchTexts ==
    { <<>>,
      <<"B">>,
      <<"B", " ", "\n">>,
      <<"B", " ", "#", "a", " ", "#", "b">>,
      <<"B", " ", "#", "a", "-", "b">>,
      <<"#", "a", "b", " ", "#", "a", "/", "b", " ", "#", "a", "_", "1">>,
      <<"-", "-", "-", "\n", "k", ":", " ", "v", "\n", "-", "-", "-", "\n", "B">>,
      <<"-", "-", "-", "\n", "k", ":", " ", "v", "\n", "t", "a", "g", "s", ":", " ", "[", "a", "]", "\n", "-", "-", "-", "\n", "B">>,
      <<"-", "-", "-", "\n", "t", "a", "g", "s", ":", " ", "[", "a", ",", " ", "b", "]", "\n", "-", "-", "-", "\n", "B">> }

\* what getFileCache may report for a text: nothing yet, the text as
\* indexed, or frontmatter with no inline tags
PatchMetas(text) ==
    { NoCache,
      hostFileCache(text),
      [exists |-> TRUE, frontmatter |-> TRUE, tags |-> <<>>] }

\* the tag sets handed to the patcher
PatchTagSets ==
    { <<FolderTag(TagA, FALSE)>>,
      <<FolderTag(TagC, FALSE)>>,
      <<FolderTag(TagB, FALSE), FolderTag(TagC, TRUE)>>,
      <<FolderTag(TagA, TRUE), FolderTag(TagC, FALSE)>> }

PatchInit ==
    /\ settings = <<>>
    /\ modal = ClosedModal
    /\ vault = {FileA}
    /\ \E text \in PatchTexts :
           /\ content = [f \in Files |-> IF f = FileA THEN text ELSE <<>>]
           /\ \E metadata \in PatchMetas(text) :
                  cache = [f \in Files |-> IF f = FileA THEN metadata ELSE NoCache]
    /\ tasks = <<>>
    /\ log = {}
    /\ edits = 0
    /\ hist = <<>>

\* await plugin.addTagsToFileContent(file, tags) or
\* await plugin.removeTagsFromFileContent(file, tags)
PatchCall(op, file, tags) ==
    /\ file \in vault
    /\ Len(hist) < MaxCalls
    /\ \E res \in {patchResult(FileOp(op, file, tags), content[file], cache[file])} :
           /\ content' = [content EXCEPT ![file] = res.text]
           /\ hist' = Append(hist,
                          [op |-> op, tags |-> tags, before |-> content[file],
                           metadata |-> cache[file], after |-> res.text,
                           wrote |-> res.wrote])
    /\ UNCHANGED <<settings, modal, vault, cache, tasks, log, edits>>

PatchNext ==
    \/ \E tags \in PatchTagSets : PatchCall("add", FileA, tags)
    \/ \E tags \in PatchTagSets : PatchCall("remove", FileA, tags)
    \/ CacheUpdate(FileA)

SpecPatch == PatchInit /\ [][PatchNext]_vars

(***************************************************************************)
(* Properties.                                                             *)
(***************************************************************************)
\* A is a strict ancestor of C: C is A, a "/" and more
IsStrictAncestor(A, C) ==
    /\ Len(A) < Len(C)
    /\ SubSeq(C, 1, Len(A)) = A
    /\ C[Len(A) + 1] = "/"

\* the indices of the records of path
RecordsOf(path) == {k \in 1..Len(settings) : settings[k].path = path}

\* the tag names declared directly on path
DeclaredOn(path) ==
    UNION {{settings[i].tags[j].tag : j \in 1..Len(settings[i].tags)} :
              i \in RecordsOf(path)}

\* the tag names declared on the strict ancestors of path
DeclaredOnAncestors(path) ==
    UNION {DeclaredOn(settings[i].path) :
              i \in {k \in 1..Len(settings) :
                        IsStrictAncestor(settings[k].path, path)}}

Range(seq) == {seq[i] : i \in 1..Len(seq)}

\* the folder paths getFolderTags is asked about: the folders, a folder
\* below them and a folder beside them
QueryPaths ==
    Folders \cup {<<"a", "/", "b", "/", "c", "/", "d">>, <<"b">>}

\* every stored tag entry, as <<record, position>>
TagEntries ==
    {e \in (1..Len(settings)) \X (1..4) : e[2] <= Len(settings[e[1]].tags)}

\* no tag name is declared twice, on one folder or on two
AllNamesDistinct ==
    \A e1, e2 \in TagEntries :
        e1 # e2 => settings[e1[1]].tags[e1[2]].tag # settings[e2[1]].tags[e2[2]].tag

\* C1: getFolderTags(P) never holds two entries with the same tag name; a
\* name declared on P (and maybe on an ancestor too) is there once, marked
\* inherited: false; a name declared only on ancestors is there once,
\* marked inherited: true.
C1_ResolvedNamesUnique ==
    \A P \in QueryPaths :
        LET r == getFolderTags(settings, P)
        IN  /\ \A i, j \in 1..Len(r) : i # j => r[i].tag # r[j].tag
            /\ \A t \in DeclaredOn(P) : FolderTag(t, FALSE) \in Range(r)
            /\ \A t \in DeclaredOnAncestors(P) \ DeclaredOn(P) :
                   FolderTag(t, TRUE) \in Range(r)

\* C2: when all tag names are distinct, getFolderTags(C) is, as a set, the
\* tags of C's own record marked inherited: false plus the tags of every
\* record on a strict ancestor of C marked inherited: true, and nothing else.
C2_ResolvedSet ==
    AllNamesDistinct =>
        \A C \in QueryPaths :
            Range(getFolderTags(settings, C))
                = {FolderTag(t, FALSE) : t \in DeclaredOn(C)}
                    \cup {FolderTag(t, TRUE) : t \in DeclaredOnAncestors(C)}

\* a chain a, a/b, a/b/c of tagged folders with distinct names, and a tagged
\* folder beside it
C2_Witness ==
    /\ AllNamesDistinct
    /\ DeclaredOn(FolderA) # {}
    /\ DeclaredOn(FolderAB) # {}
    /\ DeclaredOn(FolderABC) # {}
    /\ Len(getFolderTags(settings, FolderABC)) = 3

\* C10: every tag of every stored folder record has inherited = false.
C10_StoredTagsDirect ==
    \A i \in 1..Len(settings) :
        \A j \in 1..Len(settings[i].tags) : ~settings[i].tags[j].inherited

\* an editor that showed an inherited tag has saved a record
C10_Witness ==
    /\ ~modal.open
    /\ DeclaredOn(FolderA) = {TagZ}
    /\ DeclaredOn(FolderAB) = {TagX}
    /\ edits > 0

\* the file is in folder F or in a folder below F
InFolderOrBelow(file, F) == file.parent = F \/ IsStrictAncestor(F, file.parent)

\* C3: the bulk update that follows the submission of the editor of folder F
\* reads and writes only files of F and of the folders below F.
C3_BulkTouchesOnlyDescendants ==
    \A e \in log : e.origin = "bulk" => InFolderOrBelow(e.file, e.folder)

\* the names of the items of a parsed tags array
itemNames(items) == [i \in 1..Len(items) |-> items[i].text]

\* the names of tags that are neither in present nor repeated
freshNames(tags, present) ==
    LET names == [i \in 1..Len(tags) |-> tags[i].tag]
    IN  dedupByKey(SelectSeq(names, LAMBDA n : n \notin present),
                   SelectSeq(names, LAMBDA n : n \notin present))

\* the call e found a frontmatter block with a tags array, and the cache
\* reported frontmatter
OnTagsArray(e) ==
    LET m == frontmatterMatch(e.before)
        yaml == parseYaml(m.group)
        k == keyIndex(yaml, KeyTags)
    IN  /\ e.metadata.exists /\ e.metadata.frontmatter
        /\ m.found /\ k # 0 /\ yaml[k].value.isArray

\* the tags array of the frontmatter block of text, as names
TagsArrayOf(text) ==
    LET yaml == parseYaml(frontmatterMatch(text).group)
    IN  itemNames(yaml[keyIndex(yaml, KeyTags)].value.items)

\* `tags: [n1, n2, ...]`
TagsLine(names) == KeyTags \o <<":", " ", "[">> \o join(names, <<",", " ">>) \o <<"]">>

\* C4: adding tags to a file whose frontmatter holds `tags: [e1, ..., en]`
\* writes `tags: [e1, ..., en, n1, ...]`, the n being the bare names of the
\* new tags that are not present yet.
C4_FrontmatterTagsAppended ==
    \A i \in 1..Len(hist) :
        LET e == hist[i]
            existing == TagsArrayOf(e.before)
            fresh == freshNames(e.tags,
                         Range(existing) \cup existingTagNames(e.metadata))
        IN  (e.op = "add" /\ OnTagsArray(e) /\ Len(fresh) > 0) =>
                /\ e.wrote
                /\ includes(e.after, TagsLine(existing \o fresh))

NamesOf(tags) == [i \in 1..Len(tags) |-> tags[i].tag]

\* the frontmatter block of text, up to its closing line, holds no tags key
NoTagsKey(text) ==
    LET fmEnd == hostFrontmatterEnd(text)
    IN  /\ fmEnd # 0
        /\ ~includes(SubSeq(text, 1, fmEnd), KeyTags \o <<":">>)

\* C5: from frontmatter `tags: [a, b]`, adding c gives `tags: [a, b, c]`;
\* then removing a gives `tags: [b, c]`; then removing b and c leaves a
\* frontmatter block with no tags key.
C5_AddRemoveRoundTrip ==
    LET step1 == /\ Len(hist) >= 1
                 /\ hist[1].op = "add"
                 /\ NamesOf(hist[1].tags) = <<TagC>>
                 /\ OnTagsArray(hist[1])
                 /\ TagsArrayOf(hist[1].before) = <<TagA, TagB>>
        step2 == /\ step1
                 /\ Len(hist) >= 2
                 /\ hist[2].op = "remove"
                 /\ NamesOf(hist[2].tags) = <<TagA>>
                 /\ hist[2].metadata.exists /\ hist[2].metadata.frontmatter
        step3 == /\ step2
                 /\ Len(hist) >= 3
                 /\ hist[3].op = "remove"
                 /\ NamesOf(hist[3].tags) = <<TagB, TagC>>
                 /\ hist[3].metadata.exists /\ hist[3].metadata.frontmatter
    IN  /\ step1 => includes(hist[1].after, TagsLine(<<TagA, TagB, TagC>>))
        /\ step2 => includes(hist[2].after, TagsLine(<<TagB, TagC>>))
        /\ step3 => NoTagsKey(hist[3].after)

\* C6: the same addition applied twice, the cache reflecting the text the
\* first call wrote: the second call writes nothing and the text stays as
\* the first call left it.
C6_AddIdempotent ==
    \A i \in 1..(Len(hist) - 1) :
        LET first == hist[i]
            second == hist[i + 1]
        IN  (/\ first.op = "add" /\ second.op = "add"
             /\ first.wrote
             /\ first.tags = second.tags
             /\ second.metadata = hostFileCache(first.after)) =>
                /\ ~second.wrote
                /\ second.after = first.after

TwoSpaces == <<" ", " ">>

OnPlainFile(e) ==
    /\ e.op = "add"
    /\ Len(e.tags) > 0
    /\ hostFrontmatterEnd(e.before) = 0
    /\ hostTags(e.before, 1) = <<>>
    /\ e.metadata \in {NoCache, hostFileCache(e.before)}

\* C8: adding t1..tn to a file with no frontmatter and no tags writes the
\* text with its trailing white space trimmed, "\n\n" and `#t1 ... #tn`.
C8_InlineAppendExact ==
    \A i \in 1..Len(hist) :
        LET e == hist[i]
        IN  OnPlainFile(e) =>
                /\ e.wrote
                /\ e.after = trimEnd(e.before) \o <<LF, LF>>
                                 \o join(hashTags(e.tags), <<" ">>)

\* two tags were appended to a text that ended in white space
C8_Witness ==
    \E i \in 1..Len(hist) :
        /\ OnPlainFile(hist[i])
        /\ Len(hist[i].tags) = 2
        /\ hist[i].before # trimEnd(hist[i].before)
        /\ hist[i].wrote

\* the file that appears in this step
Created(file) == file \notin vault /\ file \in vault'

\* C9: on a file-creation event the handler calls the add path with the
\* resolved tag set of the parent folder when that set is not empty, and
\* calls nothing when it is empty; it never calls the remove path.
C9_CreateAddsResolvedTags ==
    /\ [](\A e \in log : e.origin = "create" => e.op = "add")
    /\ [](\A i \in 1..Len(tasks) :
             tasks[i].origin = "create" =>
                 /\ Len(tasks[i].queue) = 1
                 /\ tasks[i].queue[1].op = "add")
    /\ [][\A file \in Files :
             Created(file) =>
                 LET resolved == getFolderTags(settings, file.parent)
                 IN  IF Len(resolved) > 0
                     THEN /\ Len(tasks') = Len(tasks) + 1
                          /\ SubSeq(tasks', 1, Len(tasks)) = tasks
                          /\ tasks'[Len(tasks')].origin = "create"
                          /\ tasks'[Len(tasks')].pc = "read"
                          /\ tasks'[Len(tasks')].queue
                                 = <<FileOp("add", file, resolved)>>
                     ELSE tasks' = tasks]_vars

\* a file created in a/b got the tag of a/b and the inherited tag of a
C9_Witness ==
    /\ [origin |-> "create", folder |-> FolderAB, file |-> FileAB,
        op |-> "add", access |-> "write"] \in log
    /\ includes(content[FileAB], <<"#", "y", " ", "#", "z">>)

\* the paths of the stored records, in order
PathsOf(folderTags) == [i \in 1..Len(folderTags) |-> folderTags[i].path]

\* a step leaves the records as they are but for the tag list of one
OverwritesOne ==
    /\ PathsOf(settings') = PathsOf(settings)
    /\ \A i, j \in 1..Len(settings) :
           (settings'[i] # settings[i] /\ settings'[j] # settings[j]) => i = j

\* a step adds one record, last, for a path that had none
CreatesOne ==
    /\ Len(settings') = Len(settings) + 1
    /\ SubSeq(settings', 1, Len(settings)) = settings
    /\ RecordsOf(settings'[Len(settings')].path) = {}

\* a step deletes the record of one path and nothing else
RemovesOne ==
    \E i \in 1..Len(settings) :
        /\ RecordsOf(settings[i].path) = {i}
        /\ settings' = removeAt(settings, i)

\* C11: no two folder records share a path; a step that changes the
\* settings overwrites the tag list of one existing record, or creates a
\* record for a path that had none, or removes the record of exactly one path
\* and leaves the others as they were.
C11_RecordPathsUnique ==
    /\ [](\A i, j \in 1..Len(settings) :
             settings[i].path = settings[j].path => i = j)
    /\ [][OverwritesOne \/ CreatesOne \/ RemovesOne]_settings

\* the record of a was removed, created again by a save and then overwritten
\* by a second save, next to the record of a/b
C11_Witness ==
    settings = <<[path |-> FolderAB, tags |-> <<FolderTag(TagY, FALSE)>>],
                 [path |-> FolderA,
                  tags |-> <<FolderTag(TagX, FALSE), FolderTag(TagY, FALSE)>>]>>

\* the call e added tags while the cache reported a frontmatter block that
\* the text it read does not start with
OnStaleFrontmatter(e) ==
    /\ e.op = "add"
    /\ e.metadata.exists /\ e.metadata.frontmatter
    /\ ~frontmatterMatch(e.before).found
    /\ Len(filterNewTags(e.metadata, e.tags)) > 0

\* C12: when the cache reports frontmatter and the text does not match the
\* leading block, addTagsToFileContent appends the new tags as an inline
\* hashtag line and writes the file.
C12_StaleFrontmatterFallsThrough ==
    \A i \in 1..Len(hist) :
        OnStaleFrontmatter(hist[i]) =>
            /\ hist[i].wrote
            /\ hist[i].after
                   = inlineAppend(hist[i].before,
                         filterNewTags(hist[i].metadata, hist[i].tags))

\* the calls of the loop of task t that are queued behind the call in
\* progress and concern another file of the folder or of a folder below it
CallsOnOtherFiles(t) ==
    SelectSeq(Tail(t.queue),
        LAMBDA c : c.file # Head(t.queue).file /\ InFolderOrBelow(c.file, t.folder))

\* this step is the failure of the call in progress of task i
FailsIn(i) ==
    /\ LogEntry(tasks[i], "failed") \in log' \ log
    /\ tasks[i].pc \in {"read", "write"}

\* the calls are still to run in some bulk update after the step
StillQueued(calls) ==
    \E j \in 1..Len(tasks') :
        /\ tasks'[j].origin = "bulk"
        /\ Len(tasks'[j].queue) >= Len(calls)
        /\ SubSeq(tasks'[j].queue, Len(tasks'[j].queue) - Len(calls) + 1,
               Len(tasks'[j].queue)) = calls

\* C13: in a bulk update the failure of the read or write of one file does
\* not abort the batch: the removals and additions of every other file of
\* the batch are still carried out.
C13_FailureDoesNotAbortBatch ==
    [][\A i \in 1..Len(tasks) :
          (/\ tasks[i].origin = "bulk"
           /\ tasks[i].pc \in {"read", "write"}
           /\ CallsOnOtherFiles(tasks[i]) # <<>>
           /\ FailsIn(i)) => StillQueued(CallsOnOtherFiles(tasks[i]))]_vars

\* task i has read the file of its call in progress and has not written yet
CycleInFlight(i, file) ==
    /\ tasks[i].pc = "write"
    /\ Head(tasks[i].queue).file = file

\* this step is the write of an add call on file
AddWrites(file) ==
    /\ content'[file] # content[file]
    /\ \E i \in 1..Len(tasks) :
           /\ tasks[i].pc = "write"
           /\ Head(tasks[i].queue) = FileOp("add", file, Head(tasks[i].queue).tags)
           /\ LogEntry(tasks[i], "write") \in log'

\* C14: at most one read-modify-write cycle is in flight on a file: a call
\* reads a file only once every other call that has read it has written; so
\* the write of an addition never drops a hashtag that the file held.
C14_OneCyclePerFile ==
    /\ [](\A file \in Files :
             \A i, j \in 1..Len(tasks) :
                 (CycleInFlight(i, file) /\ CycleInFlight(j, file)) => i = j)
    /\ [][\A file \in Files :
             AddWrites(file) =>
                 Range(hostTags(content[file], 1))
                     \subseteq Range(hostTags(content'[file], 1))]_vars

\* C15: the stored folder records change only through saveFolderTags or the
\* removal of a record: as long as the tag editor stays open (tags typed,
\* pills deleted) the settings are what they were when it opened, so closing
\* it without saving leaves them unchanged.
C15_EditorLeavesSettings ==
    [][(modal.open /\ modal'.open) => settings' = settings]_vars

\* the hashtags of text that are longer than "#" \o name and begin with it
LongerTags(text, name) ==
    {h \in Range(hostTags(text, 1)) :
        Len(h) > Len(name) + 1 /\ startsWith(h, <<"#">> \o name)}

\* C16: removing the tag T never alters an inline hashtag whose name is
\* longer than T and begins with T, whatever follows the shared prefix: the
\* longer hashtag is in the written text as it was.
C16_LongerTagsUntouched ==
    \A i \in 1..Len(hist) :
        LET e == hist[i]
            R == {<<"#">> \o e.tags[k].tag : k \in 1..Len(e.tags)}
        IN  (e.op = "remove" /\ hostFrontmatterEnd(e.before) = 0) =>
                \A k \in 1..Len(e.tags) :
                    LongerTags(e.before, e.tags[k].tag) \ R
                        \subseteq Range(hostTags(e.after, 1))

\* the call e rewrote a text that starts with a well-formed frontmatter
\* block, the cache reporting it, and the block keeps a key: an addition sets
\* tags, a removal leaves the keys other than tags
OnWellFormedBlock(e) ==
    /\ e.wrote
    /\ e.metadata.exists /\ e.metadata.frontmatter
    /\ hostFrontmatterEnd(e.before) # 0
    /\ frontmatterMatch(e.before).found
    /\ \/ e.op = "add"
       \/ \E k \in 1..Len(parseYaml(frontmatterMatch(e.before).group)) :
              parseYaml(frontmatterMatch(e.before).group)[k].key # KeyTags

\* C17: a rewrite of a text that starts with a well-formed frontmatter block
\* which keeps a key writes a text that starts with a well-formed block
\* again, its closing "---" on a line of its own, which the next add or
\* remove still finds.
C17_BlockStaysWellFormed ==
    \A i \in 1..Len(hist) :
        OnWellFormedBlock(hist[i]) =>
            /\ hostFrontmatterEnd(hist[i].after) # 0
            /\ frontmatterMatch(hist[i].after).found

====
